---- MODULE Spec2Model ----
(***************************************************************************)
(* A model of lldb's RegisterContext base class                           *)
(* (lldb/source/Target/RegisterContext.cpp): the stop-generation gate,     *)
(* the unsigned accessors, the register-kind translation, the cross-context*)
(* copy and the memory-backed register transfer.                           *)
(*                                                                         *)
(* Register indices, register-set indices and kind numbers are 0-based, as *)
(* in the source; tables are functions over 0..n-1.                        *)
(***************************************************************************)
EXTENDS Integers, Sequences, FiniteSets, TLC

VARIABLES
    reg_infos,    \* the architecture's RegisterInfo table: [0..n-1 -> descriptor]
    reg_sets,     \* this context's RegisterSets: [0..k-1 -> Seq(register index)]
    procAlive,    \* m_thread.GetProcess() is non-null
    procStopId,   \* Process::GetStopID() while the process exists
    hw,           \* the stopped thread's register file: [register index -> value]
    m_stop_id,    \* RegisterContext::m_stop_id
    cache,        \* the backend's cached register values (dropped by InvalidateAllRegisters)
    memory,       \* process memory: [address -> byte]
    byte_order,   \* Process::GetByteOrder()
    reg_value,    \* the caller's RegisterValue object handed to the memory helpers
    m_concrete_frame_idx, \* RegisterContext::m_concrete_frame_idx
    frames,       \* the thread's cached stack-frame list: [0..n-1 -> frame]
    target,       \* the thread's target: "none" when CalculateTarget() is null, else its kind
    m_frames,     \* UnwindWasm::m_frames: the cached call stack, a sequence of addresses
    m_unwind_complete, \* UnwindWasm::m_unwind_complete
    requests,     \* the GetWasmCallStack calls made since construction or the last DoClear
    lastOp,       \* record of the last call: its arguments, result and the backend calls it issued
    prevOp        \* name and force flag of the call or event before the last one

vars == <<reg_infos, reg_sets, procAlive, procStopId, hw, m_stop_id, cache,
          memory, byte_order, reg_value, m_concrete_frame_idx, frames, target,
          m_frames, m_unwind_complete, requests, lastOp, prevOp>>

-----------------------------------------------------------------------------
(* Widths and bounds *)

\* uint32_t is modelled at UIntBits bits: UINT32_MAX is the all-ones value.
UIntBits == 4
UINT32_MAX == 2^UIntBits - 1
LLDB_INVALID_REGNUM == UINT32_MAX

\* The process stops at most MaxStopID times (MaxStopID < UINT32_MAX).
MaxStopID == 2
\* Register values range over 0..MaxVal.
MaxVal == 1

Val == 0..MaxVal
StopIds == 0..MaxStopID

\* lldb-defines.h generic register numbers
LLDB_REGNUM_GENERIC_PC == 0
LLDB_REGNUM_GENERIC_SP == 1

Kinds == {"generic", "lldb"}

-----------------------------------------------------------------------------
(* The descriptor table *)

RegisterInfo(name, generic, lldb, byte_size, value_regs) ==
    [name |-> name, kinds |-> [k \in Kinds |-> IF k = "generic" THEN generic ELSE lldb],
     byte_size |-> byte_size, value_regs |-> value_regs]

\* spec section 8: {pc: kinds{generic:PC, native:0}, size 8}, {sp: kinds{generic:SP, native:1}, size 8}
ScenarioTable ==
    [i \in 0..1 |-> IF i = 0
                    THEN RegisterInfo("pc", LLDB_REGNUM_GENERIC_PC, 0, 8, FALSE)
                    ELSE RegisterInfo("sp", LLDB_REGNUM_GENERIC_SP, 1, 8, FALSE)]

GetRegisterCount(table) == Cardinality(DOMAIN table)

\* GetRegisterInfoAtIndex: the descriptor, or "null" past the end of the table
HasRegisterInfo(table, reg) == reg \in DOMAIN table

Min(S) == CHOOSE x \in S : \A y \in S : x <= y

\* ConvertRegisterKindToRegisterNumber (architecture plugin): the index of the
\* first descriptor that carries num for the kind, or LLDB_INVALID_REGNUM.
ConvertRegisterKindToRegisterNumber(table, kind, num) ==
    LET hits == {i \in DOMAIN table : table[i].kinds[kind] = num}
    IN  IF num # LLDB_INVALID_REGNUM /\ hits # {} THEN Min(hits) ELSE LLDB_INVALID_REGNUM

-----------------------------------------------------------------------------
(* The backend's register cache (subclass state behind the pure virtuals) *)

NoEntry == [valid |-> FALSE, value |-> 0, gen |-> 0]

EmptyCache(table) == [r \in DOMAIN table |-> NoEntry]

\* InvalidateAllRegisters(): every cached value is dropped
InvalidateAllRegisters(c) == [r \in DOMAIN c |-> NoEntry]

\* ReadRegister(reg_info, value): a cached value is served as it is; otherwise the
\* value is fetched from the stopped thread and cached, which needs the process.
\* gen is the stop generation at which the served value was fetched.
BackendReadRegister(c, h, alive, gen, reg) ==
    IF c[reg].valid
    THEN [ok |-> TRUE, value |-> c[reg].value, from_cache |-> TRUE,
          cached_at |-> c[reg].gen, cache |-> c]
    ELSE IF alive
    THEN [ok |-> TRUE, value |-> h[reg], from_cache |-> FALSE, cached_at |-> gen,
          cache |-> [c EXCEPT ![reg] = [valid |-> TRUE, value |-> h[reg], gen |-> gen]]]
    ELSE [ok |-> FALSE, value |-> 0, from_cache |-> FALSE, cached_at |-> 0, cache |-> c]

-----------------------------------------------------------------------------
(* RegisterContext::InvalidateIfNeeded *)

\* line 35-40: the stop ID the gate compares with and records
ProcessStopIDOrMax(alive, stop) == IF alive THEN stop ELSE UINT32_MAX

NeedsInvalidate_IgnoresForce(force, alive, process_stop_id, stop_id) ==
    IF ~alive THEN TRUE ELSE process_stop_id # stop_id

NeedsInvalidate_Always(force, alive, process_stop_id, stop_id) == TRUE

\* lines 34-43: bool invalidate
NeedsInvalidate(force, alive, process_stop_id, stop_id) ==
    LET byForce == force
        byProcess == IF alive THEN byForce ELSE TRUE
    IN  IF ~byProcess THEN process_stop_id # stop_id ELSE byProcess

SetStopID_Zero(invalidate, process_stop_id, stop_id) ==
    IF invalidate THEN 0 ELSE stop_id

\* lines 45-48: the stop ID after the call
StopIDAfterGate(invalidate, process_stop_id, stop_id) ==
    IF invalidate THEN process_stop_id ELSE stop_id

NoOp == [op |-> "none", force |-> FALSE, reg |-> 0, invalidated |-> FALSE,
         alive |-> TRUE, proc_stop |-> 0, stop_id |-> 0, dropped |-> {},
         read_issued |-> FALSE, read_ok |-> FALSE, from_cache |-> FALSE,
         cached_at |-> 0, fail_value |-> 0, ret |-> 0]

Summary(o) == [op |-> o.op, force |-> o.force, invalidated |-> o.invalidated]

\* the entry-state snapshot every call record carries
Entry(name) == [NoOp EXCEPT !.op = name, !.alive = procAlive,
                            !.proc_stop = procStopId, !.stop_id = m_stop_id]

ValidRegs(c) == {r \in DOMAIN c : c[r].valid}

GateFrame ==
    UNCHANGED <<m_frames, m_unwind_complete, requests,
                reg_infos, reg_sets, m_concrete_frame_idx, frames, target, procAlive,
                procStopId, hw, memory, byte_order, reg_value>>

InvalidateIfNeeded(force) ==
    LET process_stop_id == ProcessStopIDOrMax(procAlive, procStopId)
        invalidate == NeedsInvalidate(force, procAlive, process_stop_id, m_stop_id)
        newCache == IF invalidate THEN InvalidateAllRegisters(cache) ELSE cache
    IN  /\ cache' = newCache
        /\ m_stop_id' = StopIDAfterGate(invalidate, process_stop_id, m_stop_id)
        /\ lastOp' = [Entry("InvalidateIfNeeded") EXCEPT
                        !.force = force, !.invalidated = invalidate,
                        !.dropped = ValidRegs(cache) \ ValidRegs(newCache)]
        /\ prevOp' = Summary(lastOp)
        /\ GateFrame

-----------------------------------------------------------------------------
(* The process side: the execution-state machine is the only writer of the  *)
(* stop generation; the process may go away under the thread.               *)

ProcessStop ==
    /\ procAlive
    /\ procStopId < MaxStopID
    /\ procStopId' = procStopId + 1
    /\ hw' \in [DOMAIN hw -> Val]
    /\ lastOp' = Entry("ProcessStop")
    /\ prevOp' = Summary(lastOp)
    /\ UNCHANGED <<m_frames, m_unwind_complete, requests,
                   reg_infos, reg_sets, m_concrete_frame_idx, frames, target,
                   procAlive, m_stop_id, cache, memory, byte_order, reg_value>>

ProcessGone ==
    /\ procAlive
    /\ procAlive' = FALSE
    /\ lastOp' = Entry("ProcessGone")
    /\ prevOp' = Summary(lastOp)
    /\ UNCHANGED <<m_frames, m_unwind_complete, requests,
                   reg_infos, reg_sets, m_concrete_frame_idx, frames, target,
                   procStopId, hw, m_stop_id, cache, memory, byte_order, reg_value>>

-----------------------------------------------------------------------------
(* The unsigned accessors *)

\* lines 202-217: ReadRegisterAsUnsigned(reg, fail_value); no call of the gate
ReadRegisterAsUnsignedResult(reg, fail_value) ==
    IF reg # LLDB_INVALID_REGNUM /\ HasRegisterInfo(reg_infos, reg)
    THEN LET r == BackendReadRegister(cache, hw, procAlive, procStopId, reg)
         IN  [issued |-> TRUE, ok |-> r.ok, from_cache |-> r.from_cache,
              cached_at |-> r.cached_at,
              ret |-> IF r.ok THEN r.value ELSE fail_value, cache |-> r.cache]
    ELSE [issued |-> FALSE, ok |-> FALSE, from_cache |-> FALSE, cached_at |-> 0,
          ret |-> fail_value, cache |-> cache]

ReadRegisterAsUnsigned(reg, fail_value) ==
    LET r == ReadRegisterAsUnsignedResult(reg, fail_value)
    IN  /\ cache' = r.cache
        /\ lastOp' = [Entry("ReadRegisterAsUnsigned") EXCEPT
                        !.reg = reg, !.read_issued = r.issued, !.read_ok = r.ok,
                        !.from_cache = r.from_cache, !.cached_at = r.cached_at,
                        !.fail_value = fail_value, !.ret = r.ret]
        /\ prevOp' = Summary(lastOp)
        /\ UNCHANGED m_stop_id
        /\ GateFrame

\* the thread's target: none, one whose code addresses are plain, one whose code
\* addresses carry a mode bit in bit 0 (ARM/Thumb, MIPS16)
Targets == {"none", "plain", "thumb"}

\* Target::GetOpcodeLoadAddress(load_addr, AddressClass::eCode): the address of
\* the opcode, which is the load address with the mode bit cleared
GetOpcodeLoadAddress(tgt, load_addr) ==
    IF tgt = "thumb" THEN (load_addr \div 2) * 2 ELSE load_addr

PCFromRegister_AlwaysConverts(pc, fail_value, tgt) ==
    IF tgt # "none" THEN GetOpcodeLoadAddress(tgt, pc) ELSE pc

\* lines 128-137: what GetPC makes of the value ReadRegisterAsUnsigned returned
PCFromRegister(pc, fail_value, tgt) ==
    IF pc # fail_value /\ tgt # "none" THEN GetOpcodeLoadAddress(tgt, pc) ELSE pc

\* lines 123-138: GetPC(fail_value)
GetPC(fail_value) ==
    LET reg == ConvertRegisterKindToRegisterNumber(reg_infos, "generic", LLDB_REGNUM_GENERIC_PC)
        r == ReadRegisterAsUnsignedResult(reg, fail_value)
    IN  /\ cache' = r.cache
        /\ lastOp' = [Entry("GetPC") EXCEPT
                        !.reg = reg, !.read_issued = r.issued, !.read_ok = r.ok,
                        !.from_cache = r.from_cache, !.cached_at = r.cached_at,
                        !.fail_value = fail_value,
                        !.ret = PCFromRegister(r.ret, fail_value, target)]
        /\ prevOp' = Summary(lastOp)
        /\ UNCHANGED m_stop_id
        /\ GateFrame

-----------------------------------------------------------------------------
(* Specification of the stop-generation gate *)

\* lines 26-28: the context is constructed while the process exists and takes
\* the process's stop ID of that moment
Init ==
    /\ reg_infos = ScenarioTable
    /\ reg_sets = [s \in 0..0 |-> <<0, 1>>]
    /\ m_concrete_frame_idx = 0
    /\ frames = <<>>
    /\ target = "plain"
    /\ m_frames = <<>>
    /\ m_unwind_complete = FALSE
    /\ requests = <<>>
    /\ procAlive = TRUE
    /\ procStopId \in StopIds
    /\ hw \in [DOMAIN ScenarioTable -> Val]
    /\ m_stop_id = procStopId
    /\ cache = EmptyCache(ScenarioTable)
    /\ memory = <<>>
    /\ byte_order = "little"
    /\ reg_value = 0
    /\ lastOp = NoOp
    /\ prevOp = Summary(NoOp)

Next ==
    \/ ProcessStop
    \/ ProcessGone
    \/ \E force \in BOOLEAN : InvalidateIfNeeded(force)
    \/ \E reg \in (DOMAIN reg_infos) \cup {2, LLDB_INVALID_REGNUM} :
          ReadRegisterAsUnsigned(reg, 0)
    \/ GetPC(0)

Spec == Init /\ [][Next]_vars

-----------------------------------------------------------------------------
(* Claims about the stop-generation gate *)

IsGateCall(o) == o.op = "InvalidateIfNeeded"

\* stale at entry of the recorded call: the process was gone, or the cached
\* stop ID differed from the process's stop generation
StaleAtEntry(o) == ~o.alive \/ o.stop_id # o.proc_stop

\* C1: InvalidateIfNeeded(force) drops every cached register and records the
\* process's stop generation (the gate's process_stop_id, UINT32_MAX without a
\* process) exactly when force is set, the process is absent or the cached stop
\* ID differs; otherwise it drops no register and keeps the stop ID. After a
\* call made while the process exists the cached stop ID is the process's.
C1_GateExactlyWhenStale ==
    IsGateCall(lastOp) =>
        /\ lastOp.invalidated <=> (lastOp.force \/ StaleAtEntry(lastOp))
        /\ lastOp.invalidated =>
              /\ ValidRegs(cache) = {}
              /\ m_stop_id = IF lastOp.alive THEN lastOp.proc_stop ELSE UINT32_MAX
        /\ ~lastOp.invalidated =>
              /\ lastOp.dropped = {}
              /\ m_stop_id = lastOp.stop_id
        /\ lastOp.alive => m_stop_id = procStopId

\* a non-forced call on a live process whose stop generation moved on dropped a
\* cached register and took the new stop ID
C1_Witness ==
    /\ IsGateCall(lastOp)
    /\ ~lastOp.force
    /\ lastOp.alive
    /\ lastOp.stop_id # lastOp.proc_stop
    /\ lastOp.dropped # {}
    /\ m_stop_id = procStopId

IsAccessorRead(o) == o.op \in {"GetPC", "ReadRegisterAsUnsigned"} /\ o.read_issued

\* C2: an accessor that reads a register after the process's stop generation has
\* changed has run the gate first (the cached stop ID is the process's again) and
\* the value it returns was not cached at an earlier stop generation.
C2_NoReadAcrossStopBoundary ==
    (IsAccessorRead(lastOp) /\ lastOp.alive /\ lastOp.stop_id # lastOp.proc_stop) =>
        /\ m_stop_id = procStopId
        /\ lastOp.from_cache => lastOp.cached_at = lastOp.proc_stop

TwoPlainGateCalls ==
    /\ prevOp.op = "InvalidateIfNeeded" /\ ~prevOp.force
    /\ IsGateCall(lastOp) /\ ~lastOp.force

\* C3 as stated: of two successive InvalidateIfNeeded(false) calls with no stop
\* in between, the second invalidates nothing, in every context state.
C3_SecondCallNeverInvalidates ==
    TwoPlainGateCalls => ~lastOp.invalidated

\* C3 amended: of two successive InvalidateIfNeeded(false) calls with no stop
\* in between, made while the process exists, the second invalidates nothing.
C3_SecondCallIdleWhileProcessExists ==
    (TwoPlainGateCalls /\ lastOp.alive) =>
        /\ ~lastOp.invalidated
        /\ lastOp.dropped = {}
        /\ m_stop_id = lastOp.stop_id

\* the first of the two calls invalidated, the second found the process alive
C3_Witness ==
    /\ TwoPlainGateCalls
    /\ prevOp.invalidated
    /\ lastOp.alive
    /\ ~lastOp.invalidated

\* C4: the cached stop ID never decreases; while the process exists it never
\* exceeds the process's stop generation; and a non-forced gate call finds the
\* context stale exactly when the cached stop ID differs from the process's
\* generation or the process is gone.
C4_StopIdMonotone ==
    /\ [][m_stop_id' >= m_stop_id]_vars
    /\ [](procAlive => m_stop_id <= procStopId)
    /\ []((IsGateCall(lastOp) /\ ~lastOp.force) =>
             (lastOp.invalidated <=> StaleAtEntry(lastOp)))

\* a forced call after a stop moved the cached stop ID up to the process's
C4_Witness ==
    /\ IsGateCall(lastOp)
    /\ lastOp.force
    /\ prevOp.op = "ProcessStop"
    /\ m_stop_id > lastOp.stop_id
    /\ m_stop_id = procStopId

-----------------------------------------------------------------------------
(* RegisterContext::ConvertBetweenRegisterKinds *)

\* At most NumKindRegs descriptors, kind numbers 0..MaxKindNum.
NumKindRegs == 2
MaxKindNum == 1

KindNums == (0..MaxKindNum) \cup {LLDB_INVALID_REGNUM}

KindDescriptors ==
    {RegisterInfo("r", g, l, 8, FALSE) : g \in KindNums, l \in KindNums}

KindTables == UNION {[0..(n - 1) -> KindDescriptors] : n \in 0..NumKindRegs}

RECURSIVE ScanKinds_SkipsSentinel(_, _, _, _, _, _)
ScanKinds_SkipsSentinel(table, reg, source_rk, source_regnum, target_rk, target_regnum) ==
    IF reg >= GetRegisterCount(table)
    THEN [ret |-> FALSE, target_regnum |-> target_regnum]
    ELSE IF /\ table[reg].kinds[source_rk] = source_regnum
            /\ table[reg].kinds[target_rk] # LLDB_INVALID_REGNUM
         THEN [ret |-> TRUE, target_regnum |-> table[reg].kinds[target_rk]]
         ELSE ScanKinds_SkipsSentinel(table, reg + 1, source_rk, source_regnum,
                                      target_rk, target_regnum)

RECURSIVE ScanKinds_ClearsOnMiss(_, _, _, _, _, _)
ScanKinds_ClearsOnMiss(table, reg, source_rk, source_regnum, target_rk, target_regnum) ==
    IF reg >= GetRegisterCount(table)
    THEN [ret |-> FALSE, target_regnum |-> LLDB_INVALID_REGNUM]
    ELSE IF table[reg].kinds[source_rk] = source_regnum
         THEN [ret |-> table[reg].kinds[target_rk] # LLDB_INVALID_REGNUM,
               target_regnum |-> table[reg].kinds[target_rk]]
         ELSE ScanKinds_ClearsOnMiss(table, reg + 1, source_rk, source_regnum,
                                     target_rk, target_regnum)

\* lines 440-448: the loop from descriptor reg on; target_regnum is the caller's
\* variable, assigned only in the matching iteration
RECURSIVE ScanKinds(_, _, _, _, _, _)
ScanKinds(table, reg, source_rk, source_regnum, target_rk, target_regnum) ==
    IF reg >= GetRegisterCount(table)
    THEN [ret |-> FALSE, target_regnum |-> target_regnum]
    ELSE IF table[reg].kinds[source_rk] = source_regnum
         THEN [ret |-> table[reg].kinds[target_rk] # LLDB_INVALID_REGNUM,
               target_regnum |-> table[reg].kinds[target_rk]]
         ELSE ScanKinds(table, reg + 1, source_rk, source_regnum, target_rk, target_regnum)

\* lines 435-449
ConvertBetweenRegisterKinds(source_rk, source_regnum, target_rk, target_regnum) ==
    LET r == ScanKinds(reg_infos, 0, source_rk, source_regnum, target_rk, target_regnum)
    IN  /\ lastOp' = [op |-> "ConvertBetweenRegisterKinds", source_rk |-> source_rk,
                      source_regnum |-> source_regnum, target_rk |-> target_rk,
                      target_in |-> target_regnum, ret |-> r.ret,
                      target_regnum |-> r.target_regnum]
        /\ UNCHANGED <<m_frames, m_unwind_complete, requests,
                       reg_infos, reg_sets, m_concrete_frame_idx, frames, target,
                       procAlive, procStopId, hw, m_stop_id, cache,
                       memory, byte_order, reg_value, prevOp>>

\* a value no table of KindTables carries, to tell a written output from an untouched one
UntouchedRegnum == LLDB_INVALID_REGNUM - 1

InitKinds ==
    /\ reg_infos \in KindTables
    /\ reg_sets = <<>>
    /\ m_concrete_frame_idx = 0
    /\ frames = <<>>
    /\ target = "plain"
    /\ m_frames = <<>>
    /\ m_unwind_complete = FALSE
    /\ requests = <<>>
    /\ procAlive = TRUE
    /\ procStopId = 0
    /\ hw = <<>>
    /\ m_stop_id = 0
    /\ cache = <<>>
    /\ memory = <<>>
    /\ byte_order = "little"
    /\ reg_value = 0
    /\ lastOp = [op |-> "none"]
    /\ prevOp = Summary(NoOp)

NextKinds ==
    \E source_rk \in Kinds, target_rk \in Kinds,
       source_regnum \in KindNums \cup {MaxKindNum + 1},
       target_regnum \in {0, UntouchedRegnum} :
        ConvertBetweenRegisterKinds(source_rk, source_regnum, target_rk, target_regnum)

SpecKinds == InitKinds /\ [][NextKinds]_vars

IsConvertCall(o) == o.op = "ConvertBetweenRegisterKinds"

\* the descriptors that carry the call's source number for its source kind
SourceMatches(o) ==
    {i \in DOMAIN reg_infos : reg_infos[i].kinds[o.source_rk] = o.source_regnum}

\* C5: the lowest-index descriptor matching the source decides: success with its
\* target-kind number when that is not the sentinel, failure when it is (whatever
\* later descriptors hold) and failure when no descriptor matches.
C5_FirstMatchDecides ==
    IsConvertCall(lastOp) =>
        IF SourceMatches(lastOp) = {}
        THEN ~lastOp.ret
        ELSE LET first == reg_infos[Min(SourceMatches(lastOp))].kinds[lastOp.target_rk]
             IN  IF first # LLDB_INVALID_REGNUM
                 THEN lastOp.ret /\ lastOp.target_regnum = first
                 ELSE ~lastOp.ret

\* the first match has no target number, a later match has one, and the call failed
C5_Witness ==
    /\ IsConvertCall(lastOp)
    /\ ~lastOp.ret
    /\ lastOp.source_rk # lastOp.target_rk
    /\ \E i, j \in SourceMatches(lastOp) :
          /\ i = Min(SourceMatches(lastOp))
          /\ i < j
          /\ reg_infos[i].kinds[lastOp.target_rk] = LLDB_INVALID_REGNUM
          /\ reg_infos[j].kinds[lastOp.target_rk] # LLDB_INVALID_REGNUM

\* C6: a (kind, number) pair that no descriptor carries is not found and the
\* caller's output number is left as it was; success is reported only with a
\* non-sentinel number that a descriptor matching the source maps for the target kind.
C6_NoFabricatedNumber ==
    IsConvertCall(lastOp) =>
        /\ SourceMatches(lastOp) = {} =>
              /\ ~lastOp.ret
              /\ lastOp.target_regnum = lastOp.target_in
        /\ lastOp.ret =>
              /\ lastOp.target_regnum # LLDB_INVALID_REGNUM
              /\ \E i \in SourceMatches(lastOp) :
                    reg_infos[i].kinds[lastOp.target_rk] = lastOp.target_regnum

\* a miss on a non-empty table whose target kind does carry numbers: not found,
\* and the caller's output still holds the value it came with
C6_Witness ==
    /\ IsConvertCall(lastOp)
    /\ SourceMatches(lastOp) = {}
    /\ DOMAIN reg_infos # {}
    /\ \E i \in DOMAIN reg_infos : reg_infos[i].kinds[lastOp.target_rk] # LLDB_INVALID_REGNUM
    /\ ~lastOp.ret
    /\ lastOp.target_in = UntouchedRegnum
    /\ lastOp.target_regnum = UntouchedRegnum

-----------------------------------------------------------------------------
(* RegisterContext::CopyFromRegisterContext *)

\* m_thread.GetID() of the destination context
ThisThreadID == 1
ThreadIDs == {ThisThreadID, ThisThreadID + 1}

CopyRegs == 0..2

\* tables of three registers; the registers of pseudo carry value_regs
CopyTable(pseudo) ==
    [r \in CopyRegs |-> RegisterInfo("r", LLDB_INVALID_REGNUM, r, 8, r \in pseudo)]

CopyTables == {CopyTable(pseudo) : pseudo \in {{}, {2}, {0, 1}}}

\* the destination's register sets: one set of all registers; two disjoint sets;
\* two sets that share register 1, leave out register 2 and name an index past
\* the table
CopySetLayouts ==
    { [s \in 0..0 |-> <<0, 1, 2>>],
      [s \in 0..1 |-> IF s = 0 THEN <<0>> ELSE <<1, 2>>],
      [s \in 0..1 |-> IF s = 0 THEN <<0, 1>> ELSE <<1, 3>>] }

GetRegisterSetCount(sets) == Cardinality(DOMAIN sets)

\* what the three contexts hold: the destination starts with r, the source
\* context offers 10 + r and the thread's frame-zero context 20 + r
InitialValue(r) == r
SourceValue(r) == 10 + r
FrameZeroValue(r) == 20 + r

\* WriteRegister(reg_info, reg_value) on the destination: the call is issued; the
\* backend stores the value unless it fails for this register
WriteRegister(st, reg, value, unwritable) ==
    [st EXCEPT !.writes = Append(@, <<reg, value>>),
               !.hw = IF reg \in unwritable THEN @ ELSE [@ EXCEPT ![reg] = value]]

CopyRegister_CopiesPseudo(st, reg, table, src_readable, fz_readable, unwritable) ==
    IF ~HasRegisterInfo(table, reg)
    THEN st
    ELSE IF reg \in src_readable
    THEN WriteRegister([st EXCEPT !.src_reads = Append(@, reg)],
                       reg, SourceValue(reg), unwritable)
    ELSE IF reg \in fz_readable
    THEN WriteRegister([st EXCEPT !.src_reads = Append(@, reg),
                                  !.fz_reads = Append(@, reg)],
                       reg, FrameZeroValue(reg), unwritable)
    ELSE [st EXCEPT !.src_reads = Append(@, reg), !.fz_reads = Append(@, reg)]

CopyRegister_FrameZeroFirst(st, reg, table, src_readable, fz_readable, unwritable) ==
    IF ~HasRegisterInfo(table, reg) \/ table[reg].value_regs
    THEN st
    ELSE IF reg \in fz_readable
    THEN WriteRegister([st EXCEPT !.fz_reads = Append(@, reg)],
                       reg, FrameZeroValue(reg), unwritable)
    ELSE IF reg \in src_readable
    THEN WriteRegister([st EXCEPT !.src_reads = Append(@, reg),
                                  !.fz_reads = Append(@, reg)],
                       reg, SourceValue(reg), unwritable)
    ELSE [st EXCEPT !.src_reads = Append(@, reg), !.fz_reads = Append(@, reg)]

\* lines 252-264: one iteration of the inner loop
CopyRegister(st, reg, table, src_readable, fz_readable, unwritable) ==
    IF ~HasRegisterInfo(table, reg) \/ table[reg].value_regs
    THEN st
    ELSE IF reg \in src_readable
    THEN WriteRegister([st EXCEPT !.src_reads = Append(@, reg)],
                       reg, SourceValue(reg), unwritable)
    ELSE IF reg \in fz_readable
    THEN WriteRegister([st EXCEPT !.src_reads = Append(@, reg),
                                  !.fz_reads = Append(@, reg)],
                       reg, FrameZeroValue(reg), unwritable)
    ELSE [st EXCEPT !.src_reads = Append(@, reg), !.fz_reads = Append(@, reg)]

\* lines 250-265: the inner loop over one register set, from reg_idx on
RECURSIVE CopyRegisterSet(_, _, _, _, _, _, _)
CopyRegisterSet(st, registers, reg_idx, table, src_readable, fz_readable, unwritable) ==
    IF reg_idx >= Len(registers)
    THEN st
    ELSE CopyRegisterSet(
             CopyRegister(st, registers[reg_idx + 1], table, src_readable,
                          fz_readable, unwritable),
             registers, reg_idx + 1, table, src_readable, fz_readable, unwritable)

\* lines 247-266: the outer loop over the register sets, from set_idx on
RECURSIVE CopyRegisterSets(_, _, _, _, _, _, _, _)
CopyRegisterSets(st, sets, set_idx, num_register_sets, table, src_readable, fz_readable, unwritable) ==
    IF set_idx >= num_register_sets
    THEN st
    ELSE CopyRegisterSets(
             CopyRegisterSet(st, sets[set_idx], 0, table, src_readable,
                             fz_readable, unwritable),
             sets, set_idx + 1, num_register_sets, table, src_readable,
             fz_readable, unwritable)

CopyAllowed_NoThreadCheck(context_tid, num_register_sets, this_tid, this_sets) ==
    num_register_sets = this_sets

\* lines 236-243: the two checks made before any register is touched
CopyAllowed(context_tid, num_register_sets, this_tid, this_sets) ==
    IF context_tid # this_tid THEN FALSE
    ELSE IF num_register_sets # this_sets THEN FALSE
    ELSE TRUE

CopyResult_FailsOnFailedWrite(allowed, st) ==
    allowed /\ \A i \in 1..Len(st.writes) : st.hw[st.writes[i][1]] = st.writes[i][2]

\* lines 240, 243, 267: false from either check, true after the loops, whatever
\* the reads and writes of the loops returned
CopyResult(allowed, st) == allowed

\* lines 235-268; context is the source: its thread, its set count and the
\* registers its ReadRegister can supply; fz_readable are the registers the
\* thread's frame-zero context can supply
CopyFromRegisterContext(context_tid, num_register_sets, src_readable, fz_readable, unwritable) ==
    LET start == [src_reads |-> <<>>, fz_reads |-> <<>>, writes |-> <<>>, hw |-> hw]
        allowed == CopyAllowed(context_tid, num_register_sets, ThisThreadID,
                               GetRegisterSetCount(reg_sets))
        done == IF allowed
                THEN CopyRegisterSets(start, reg_sets, 0, num_register_sets, reg_infos,
                                      src_readable, fz_readable, unwritable)
                ELSE start
    IN  /\ hw' = done.hw
        /\ lastOp' = [op |-> "CopyFromRegisterContext", context_tid |-> context_tid,
                      num_register_sets |-> num_register_sets,
                      src_readable |-> src_readable, fz_readable |-> fz_readable,
                      unwritable |-> unwritable, hw_pre |-> hw,
                      ret |-> CopyResult(allowed, done),
                      src_reads |-> done.src_reads, fz_reads |-> done.fz_reads,
                      writes |-> done.writes]
        /\ UNCHANGED <<m_frames, m_unwind_complete, requests,
                       reg_infos, reg_sets, m_concrete_frame_idx, frames, target,
                       procAlive, procStopId, m_stop_id, cache,
                       memory, byte_order, reg_value, prevOp>>

InitCopy ==
    /\ reg_infos \in CopyTables
    /\ reg_sets \in CopySetLayouts
    /\ m_concrete_frame_idx = 0
    /\ frames = <<>>
    /\ target = "plain"
    /\ m_frames = <<>>
    /\ m_unwind_complete = FALSE
    /\ requests = <<>>
    /\ procAlive = TRUE
    /\ procStopId = 0
    /\ hw = [r \in CopyRegs |-> InitialValue(r)]
    /\ m_stop_id = 0
    /\ cache = <<>>
    /\ memory = <<>>
    /\ byte_order = "little"
    /\ reg_value = 0
    /\ lastOp = [op |-> "none"]
    /\ prevOp = Summary(NoOp)

NextCopy ==
    \E context_tid \in ThreadIDs,
       num_register_sets \in {GetRegisterSetCount(reg_sets), GetRegisterSetCount(reg_sets) + 1},
       src_readable \in SUBSET CopyRegs,
       fz_readable \in {{}, {0, 2}, CopyRegs},
       unwritable \in {{}, {0}} :
        CopyFromRegisterContext(context_tid, num_register_sets, src_readable,
                                fz_readable, unwritable)

SpecCopy == InitCopy /\ [][NextCopy]_vars

-----------------------------------------------------------------------------
(* Claims about CopyFromRegisterContext *)

IsCopyCall(o) == o.op = "CopyFromRegisterContext"

SeqRange(q) == {q[i] : i \in 1..Len(q)}

\* the register indices the destination's register sets name
ListedRegs == UNION {SeqRange(reg_sets[s]) : s \in DOMAIN reg_sets}

PseudoRegs == {r \in DOMAIN reg_infos : reg_infos[r].value_regs}

\* the values passed to WriteRegister for register r during the recorded call
WritesOf(o, r) == {w[2] : w \in {x \in SeqRange(o.writes) : x[1] = r}}

WrittenRegs(o) == {w[1] : w \in SeqRange(o.writes)}

\* C7: a source context of another thread makes the copy return false with no
\* ReadRegister on the source or the frame-zero context and no WriteRegister on
\* the destination.
C7_OtherThreadFailsUntouched ==
    (IsCopyCall(lastOp) /\ lastOp.context_tid # ThisThreadID) =>
        /\ ~lastOp.ret
        /\ lastOp.src_reads = <<>>
        /\ lastOp.fz_reads = <<>>
        /\ lastOp.writes = <<>>
        /\ hw = lastOp.hw_pre

\* the source is of another thread, has the same number of sets and could
\* supply every register
C7_Witness ==
    /\ IsCopyCall(lastOp)
    /\ lastOp.context_tid # ThisThreadID
    /\ lastOp.num_register_sets = GetRegisterSetCount(reg_sets)
    /\ lastOp.src_readable = CopyRegs
    /\ ~lastOp.ret

\* C8: a register whose descriptor has value_regs is never read from the source
\* or the frame-zero context and never written: no pseudo-register index is
\* among the registers written, and its value in the destination stays.
C8_PseudoRegistersSkipped ==
    IsCopyCall(lastOp) =>
        /\ PseudoRegs \cap SeqRange(lastOp.src_reads) = {}
        /\ PseudoRegs \cap SeqRange(lastOp.fz_reads) = {}
        /\ PseudoRegs \cap WrittenRegs(lastOp) = {}
        /\ \A r \in PseudoRegs : hw[r] = lastOp.hw_pre[r]

\* a copy that wrote registers while a pseudo-register named in a set, which
\* both contexts could supply, was passed over
C8_Witness ==
    /\ IsCopyCall(lastOp)
    /\ lastOp.ret
    /\ lastOp.writes # <<>>
    /\ \E r \in PseudoRegs \cap ListedRegs :
          /\ r \in lastOp.src_readable
          /\ r \in lastOp.fz_readable
          /\ r \notin WrittenRegs(lastOp)

C22_CopyResultIsThePreconditions ==
    IsCopyCall(lastOp) =>
        LET same_thread == lastOp.context_tid = ThisThreadID
            same_sets == lastOp.num_register_sets = GetRegisterSetCount(reg_sets)
        IN  /\ ~same_sets =>
                  /\ ~lastOp.ret
                  /\ lastOp.src_reads = <<>>
                  /\ lastOp.fz_reads = <<>>
                  /\ lastOp.writes = <<>>
                  /\ hw = lastOp.hw_pre
            /\ (same_thread /\ same_sets) => lastOp.ret
            /\ lastOp.ret <=> (same_thread /\ same_sets)

\* a copy that returned true although a WriteRegister it issued failed and left
\* the register with another value than the one passed
C22_Witness ==
    /\ IsCopyCall(lastOp)
    /\ lastOp.ret
    /\ \E w \in SeqRange(lastOp.writes) :
          /\ w[1] \in lastOp.unwritable
          /\ hw[w[1]] # w[2]
          /\ hw[w[1]] = lastOp.hw_pre[w[1]]

-----------------------------------------------------------------------------
(* RegisterContext::ReadRegisterValueFromMemory *)

\* RegisterValue::kMaxRegisterByteSize
kMaxRegisterByteSize == 64

\* Process memory holds MemSize bytes; byte a starts as a + 1, so no byte is zero.
MemSize == 6
MemAddrs == 0..(MemSize - 1)
InitialMemory == [a \in MemAddrs |-> a + 1]

\* A RegisterValue: invalid as constructed, or byte_size bytes in address order
InvalidValue == [type |-> "invalid", bytes |-> <<>>]

MemByteSizes == {1, 2, 4}

\* the reg_info argument: nullptr, or a descriptor of one of these sizes
NullRegInfo == [present |-> FALSE, byte_size |-> 0]
MemRegInfos ==
    {NullRegInfo} \cup {[present |-> TRUE, byte_size |-> b] : b \in MemByteSizes}

Zeros(n) == [i \in 1..n |-> 0]

\* Process::ReadMemory: the first n of the len bytes at addr
MemoryBytes(mem, addr, n) == [i \in 1..n |-> mem[addr + i - 1]]

\* RegisterValue::SetFromMemoryData, lines 305-318: the bytes read fill the low
\* addresses of a little-endian register and the high addresses of a big-endian
\* one; the rest is zero
SetFromMemoryData(byte_size, src, order) ==
    [type |-> "bytes",
     bytes |-> IF order = "little"
               THEN src \o Zeros(byte_size - Len(src))
               ELSE Zeros(byte_size - Len(src)) \o src]

ReadArgumentError_NoSizeCheck(reg_info, src_len) ==
    IF ~reg_info.present THEN "invalid register info argument."
    ELSE IF src_len > kMaxRegisterByteSize
    THEN "register too small to receive memory data"
    ELSE ""

\* lines 298-331: the checks made before the process is asked; "" when they pass
ReadArgumentError(reg_info, src_len) ==
    IF ~reg_info.present THEN "invalid register info argument."
    ELSE IF src_len > kMaxRegisterByteSize
    THEN "register too small to receive memory data"
    ELSE IF src_len > reg_info.byte_size
    THEN "too big to store in register"
    ELSE ""

ReadFromProcess_TrustsBackend(alive, mem, order, byte_size, src_addr, src_len, bytes_read, backend_ok, value) ==
    IF ~alive
    THEN [error |-> "invalid process", reg_value |-> value, mem_reads |-> <<>>]
    ELSE IF ~backend_ok
    THEN [error |-> "memory read failed", reg_value |-> value,
          mem_reads |-> <<<<src_addr, src_len>>>>]
    ELSE [error |-> "",
          reg_value |-> SetFromMemoryData(byte_size,
                                          MemoryBytes(mem, src_addr, bytes_read), order),
          mem_reads |-> <<<<src_addr, src_len>>>>]

ReadFromProcess_IgnoresByteOrder(alive, mem, order, byte_size, src_addr, src_len, bytes_read, backend_ok, value) ==
    IF ~alive
    THEN [error |-> "invalid process", reg_value |-> value, mem_reads |-> <<>>]
    ELSE IF bytes_read # src_len
    THEN [error |-> IF backend_ok THEN "read fewer bytes" ELSE "memory read failed",
          reg_value |-> value, mem_reads |-> <<<<src_addr, src_len>>>>]
    ELSE [error |-> "",
          reg_value |-> SetFromMemoryData(byte_size,
                                          MemoryBytes(mem, src_addr, src_len), "little"),
          mem_reads |-> <<<<src_addr, src_len>>>>]

ReadFromProcess_NoProcessCheck(alive, mem, order, byte_size, src_addr, src_len, bytes_read, backend_ok, value) ==
    IF bytes_read # src_len
    THEN [error |-> IF backend_ok THEN "read fewer bytes" ELSE "memory read failed",
          reg_value |-> value, mem_reads |-> <<<<src_addr, src_len>>>>]
    ELSE [error |-> "",
          reg_value |-> SetFromMemoryData(byte_size,
                                          MemoryBytes(mem, src_addr, src_len), order),
          mem_reads |-> <<<<src_addr, src_len>>>>]

\* lines 333-361: bytes_read and backend_ok are what Process::ReadMemory returns
ReadFromProcess(alive, mem, order, byte_size, src_addr, src_len, bytes_read, backend_ok, value) ==
    IF ~alive
    THEN [error |-> "invalid process", reg_value |-> value, mem_reads |-> <<>>]
    ELSE IF bytes_read # src_len
    THEN [error |-> IF backend_ok THEN "read fewer bytes" ELSE "memory read failed",
          reg_value |-> value, mem_reads |-> <<<<src_addr, src_len>>>>]
    ELSE [error |-> "",
          reg_value |-> SetFromMemoryData(byte_size,
                                          MemoryBytes(mem, src_addr, src_len), order),
          mem_reads |-> <<<<src_addr, src_len>>>>]

\* lines 294-362
ReadRegisterValueFromMemory(reg_info, src_addr, src_len, bytes_read, backend_ok) ==
    LET argError == ReadArgumentError(reg_info, src_len)
        r == IF argError # ""
             THEN [error |-> argError, reg_value |-> reg_value, mem_reads |-> <<>>]
             ELSE ReadFromProcess(procAlive, memory, byte_order, reg_info.byte_size, src_addr,
                                  src_len, bytes_read, backend_ok, reg_value)
    IN  /\ reg_value' = r.reg_value
        /\ lastOp' = [op |-> "ReadRegisterValueFromMemory",
                      reg_info |-> reg_info,
                      src_addr |-> src_addr, src_len |-> src_len,
                      bytes_read |-> bytes_read, backend_ok |-> backend_ok,
                      alive |-> procAlive, value_pre |-> reg_value,
                      error |-> r.error, mem_reads |-> r.mem_reads]
        /\ UNCHANGED <<m_frames, m_unwind_complete, requests,
                       reg_infos, reg_sets, m_concrete_frame_idx, frames, target,
                       procAlive, procStopId, hw, m_stop_id, cache,
                       memory, byte_order, prevOp>>

-----------------------------------------------------------------------------
(* RegisterContext::WriteRegisterValueToMemory *)

\* DataExtractor::CopyByteOrderedData(0, src_len, dst, dst_len, order) on the
\* value's bytes: nothing is copied unless the value holds src_len bytes and
\* dst_len is positive; a destination of at least src_len bytes takes them all
\* (zero padding on the high-order side, src_len reported); a shorter one takes
\* the dst_len low-order bytes
CopyByteOrderedData(src, src_len, dst_len, order) ==
    IF Len(src) < src_len \/ src_len = 0 \/ dst_len = 0
    THEN [dst |-> <<>>, bytes_copied |-> 0]
    ELSE IF dst_len >= src_len
    THEN [dst |-> IF order = "little"
                  THEN SubSeq(src, 1, src_len) \o Zeros(dst_len - src_len)
                  ELSE Zeros(dst_len - src_len) \o SubSeq(src, 1, src_len),
          bytes_copied |-> src_len]
    ELSE [dst |-> IF order = "little"
                  THEN SubSeq(src, 1, dst_len)
                  ELSE SubSeq(src, src_len - dst_len + 1, src_len),
          bytes_copied |-> dst_len]

\* RegisterValue::GetAsMemoryData(reg_info, dst, dst_len, order, error): the
\* bytes of the value as they lie in memory; copy_error_reported tells whether
\* the serializer sets the error itself when it copied nothing
GetAsMemoryData(value, reg_info, dst_len, order, copy_error_reported) ==
    IF ~reg_info.present
    THEN [error |-> "invalid register info argument.", dst |-> <<>>, bytes_copied |-> 0]
    ELSE IF value.type = "invalid"
    THEN [error |-> "invalid register value type", dst |-> <<>>, bytes_copied |-> 0]
    ELSE IF dst_len > kMaxRegisterByteSize
    THEN [error |-> "destination is too big", dst |-> <<>>, bytes_copied |-> 0]
    ELSE LET c == CopyByteOrderedData(value.bytes, reg_info.byte_size, dst_len, order)
         IN  [error |-> IF c.bytes_copied = 0 /\ copy_error_reported
                        THEN "failed to copy data" ELSE "",
              dst |-> c.dst, bytes_copied |-> c.bytes_copied]

\* Process::WriteMemory(addr, buf, size, error): the backend stores the first
\* bytes_written bytes of buf at addr
StoreBytes(mem, addr, buf, bytes_written) ==
    [a \in DOMAIN mem |-> IF a >= addr /\ a < addr + bytes_written
                          THEN buf[a - addr + 1] ELSE mem[a]]

WriteToProcess_IgnoresShortWrite(mem, ser, dst_addr, write_limit, backend_ok) ==
    IF ser.error # ""
    THEN [error |-> ser.error, memory |-> mem, mem_writes |-> <<>>, bytes_written |-> 0]
    ELSE IF ser.bytes_copied = 0
    THEN [error |-> "byte copy failed.", memory |-> mem, mem_writes |-> <<>>,
          bytes_written |-> 0]
    ELSE LET bytes_written == Min({ser.bytes_copied, write_limit})
         IN  [error |-> IF bytes_written # ser.bytes_copied /\ ~backend_ok
                        THEN "memory write failed" ELSE "",
              memory |-> StoreBytes(mem, dst_addr, ser.dst, bytes_written),
              mem_writes |-> <<<<dst_addr, ser.bytes_copied>>>>,
              bytes_written |-> bytes_written]

WriteToProcess_NoEmptyCopyCheck(mem, ser, dst_addr, write_limit, backend_ok) ==
    IF ser.error # ""
    THEN [error |-> ser.error, memory |-> mem, mem_writes |-> <<>>, bytes_written |-> 0]
    ELSE LET bytes_written == Min({ser.bytes_copied, write_limit})
         IN  [error |-> IF bytes_written # ser.bytes_copied
                        THEN IF backend_ok THEN "only wrote fewer bytes"
                                           ELSE "memory write failed"
                        ELSE "",
              memory |-> StoreBytes(mem, dst_addr, ser.dst, bytes_written),
              mem_writes |-> <<<<dst_addr, ser.bytes_copied>>>>,
              bytes_written |-> bytes_written]

\* lines 381-395: what follows the serialization; write_limit and backend_ok say
\* how many bytes Process::WriteMemory stores at most and whether it reports
\* success when it stored fewer than asked for
WriteToProcess(mem, ser, dst_addr, write_limit, backend_ok) ==
    IF ser.error # ""
    THEN [error |-> ser.error, memory |-> mem, mem_writes |-> <<>>, bytes_written |-> 0]
    ELSE IF ser.bytes_copied = 0
    THEN [error |-> "byte copy failed.", memory |-> mem, mem_writes |-> <<>>,
          bytes_written |-> 0]
    ELSE LET bytes_written == Min({ser.bytes_copied, write_limit})
         IN  [error |-> IF bytes_written # ser.bytes_copied
                        THEN IF backend_ok THEN "only wrote fewer bytes"
                                           ELSE "memory write failed"
                        ELSE "",
              memory |-> StoreBytes(mem, dst_addr, ser.dst, bytes_written),
              mem_writes |-> <<<<dst_addr, ser.bytes_copied>>>>,
              bytes_written |-> bytes_written]

NotSerialized == [error |-> "", dst |-> <<>>, bytes_copied |-> 0]

\* lines 364-400; value is the reg_value argument, a RegisterValue of the caller
WriteRegisterValueToMemory(reg_info, dst_addr, dst_len, value, copy_error_reported, write_limit, backend_ok) ==
    LET ser == IF procAlive
               THEN GetAsMemoryData(value, reg_info, dst_len, byte_order, copy_error_reported)
               ELSE NotSerialized
        r == IF procAlive
             THEN WriteToProcess(memory, ser, dst_addr, write_limit, backend_ok)
             ELSE [error |-> "invalid process", memory |-> memory, mem_writes |-> <<>>,
                   bytes_written |-> 0]
    IN  /\ memory' = r.memory
        /\ lastOp' = [op |-> "WriteRegisterValueToMemory",
                      reg_info |-> reg_info,
                      dst_addr |-> dst_addr, dst_len |-> dst_len, value |-> value,
                      alive |-> procAlive, value_pre |-> reg_value,
                      memory_pre |-> memory,
                      serialized |-> procAlive, ser_error |-> ser.error,
                      bytes_copied |-> ser.bytes_copied,
                      backend_ok |-> backend_ok \/ r.bytes_written = ser.bytes_copied,
                      bytes_written |-> r.bytes_written,
                      error |-> r.error, mem_writes |-> r.mem_writes]
        /\ UNCHANGED <<m_frames, m_unwind_complete, requests,
                       reg_infos, reg_sets, m_concrete_frame_idx, frames, target,
                       procAlive, procStopId, hw, m_stop_id, cache,
                       byte_order, reg_value, prevOp>>

\* the process goes away under the thread
MemProcessGone ==
    /\ procAlive
    /\ procAlive' = FALSE
    /\ lastOp' = [op |-> "ProcessGone"]
    /\ UNCHANGED <<m_frames, m_unwind_complete, requests,
                   reg_infos, reg_sets, m_concrete_frame_idx, frames, target,
                   procStopId, hw, m_stop_id, cache, memory,
                   byte_order, reg_value, prevOp>>

InitMem ==
    /\ reg_infos = ScenarioTable
    /\ reg_sets = <<>>
    /\ m_concrete_frame_idx = 0
    /\ frames = <<>>
    /\ target = "plain"
    /\ m_frames = <<>>
    /\ m_unwind_complete = FALSE
    /\ requests = <<>>
    /\ procAlive = TRUE
    /\ procStopId = 0
    /\ hw = <<>>
    /\ m_stop_id = 0
    /\ cache = <<>>
    /\ memory = InitialMemory
    /\ byte_order \in {"little", "big"}
    /\ reg_value = InvalidValue
    /\ lastOp = [op |-> "none"]
    /\ prevOp = Summary(NoOp)

\* the lengths asked for: up to one more than the widest register, and the
\* RegisterValue capacity and one more
ReadLengths == (1..5) \cup {kMaxRegisterByteSize, kMaxRegisterByteSize + 1}

NextMem ==
    \/ MemProcessGone
    \/ \E reg_info \in MemRegInfos, src_addr \in {0, 1},
          src_len \in ReadLengths, backend_ok \in BOOLEAN :
          \E bytes_read \in {n \in {0, src_len - 1, src_len} :
                                /\ n <= MemSize - src_addr
                                /\ ~backend_ok => n < src_len} :
              ReadRegisterValueFromMemory(reg_info, src_addr, src_len, bytes_read,
                                          backend_ok)

SpecMem == InitMem /\ [][NextMem]_vars

IsMemRead(o) == o.op = "ReadRegisterValueFromMemory"

\* C10: a length above the RegisterValue capacity or above the descriptor's
\* byte_size returns an error, leaves the caller's register value as it was
\* and issues no read to the process.
C10_OversizedReadRejected ==
    (/\ IsMemRead(lastOp)
     /\ lastOp.reg_info.present
     /\ \/ lastOp.src_len > kMaxRegisterByteSize
        \/ lastOp.src_len > lastOp.reg_info.byte_size) =>
        /\ lastOp.error # ""
        /\ reg_value = lastOp.value_pre
        /\ lastOp.mem_reads = <<>>

\* a register value filled by an earlier read survived a read that asked for
\* one byte more than the register holds, from a live process that could serve it
C10_Witness ==
    /\ IsMemRead(lastOp)
    /\ lastOp.reg_info.present
    /\ lastOp.alive
    /\ lastOp.src_len = lastOp.reg_info.byte_size + 1
    /\ lastOp.bytes_read = lastOp.src_len
    /\ lastOp.error # ""
    /\ reg_value.type = "bytes"
    /\ reg_value = lastOp.value_pre

\* C11: a read that reached the process and came back with a byte count other
\* than the one asked for returns an error, also when the backend reported
\* success (the error then is the short-read one, not the backend's), and leaves
\* the caller's register value as it was; the register value changes only after
\* a read of the full length.
C11_ShortReadIsError ==
    (IsMemRead(lastOp) /\ lastOp.mem_reads # <<>>) =>
        /\ lastOp.bytes_read # lastOp.src_len =>
              /\ lastOp.error # ""
              /\ lastOp.backend_ok => lastOp.error = "read fewer bytes"
              /\ reg_value = lastOp.value_pre
        /\ reg_value # lastOp.value_pre =>
              /\ lastOp.bytes_read = lastOp.src_len
              /\ lastOp.error = ""

\* the backend reported success but returned one byte less than asked for: the
\* call failed and a register value filled by an earlier read is still there
C11_Witness ==
    /\ IsMemRead(lastOp)
    /\ lastOp.mem_reads # <<>>
    /\ lastOp.backend_ok
    /\ lastOp.bytes_read > 0
    /\ lastOp.bytes_read = lastOp.src_len - 1
    /\ lastOp.error = "read fewer bytes"
    /\ reg_value.type = "bytes"
    /\ reg_value = lastOp.value_pre

\* C12: after a full read of L bytes into a register of byte_size B >= L the
\* register value holds B bytes: in a little-endian process the L memory bytes
\* at the low addresses and zeros above them, in a big-endian process zeros at
\* the low addresses and the L memory bytes at the high ones; with L = B the
\* register bytes are the memory bytes.
C12_FullReadPadsByByteOrder ==
    (IsMemRead(lastOp) /\ lastOp.error = "") =>
        LET L == lastOp.src_len
            B == lastOp.reg_info.byte_size
            A == lastOp.src_addr
        IN  /\ L <= B
            /\ reg_value.type = "bytes"
            /\ Len(reg_value.bytes) = B
            /\ byte_order = "little" =>
                  \A i \in 1..B :
                      reg_value.bytes[i] = IF i <= L THEN memory[A + i - 1] ELSE 0
            /\ byte_order = "big" =>
                  \A i \in 1..B :
                      reg_value.bytes[i] = IF i > B - L THEN memory[A + i - (B - L) - 1] ELSE 0
            /\ L = B => reg_value.bytes = MemoryBytes(memory, A, L)

\* two non-zero memory bytes read into a four-byte register of a big-endian
\* process: the two low-address bytes of the register are zero
C12_Witness ==
    /\ IsMemRead(lastOp)
    /\ lastOp.error = ""
    /\ byte_order = "big"
    /\ lastOp.src_len = 2
    /\ lastOp.reg_info.byte_size = 4
    /\ memory[lastOp.src_addr] # 0 /\ memory[lastOp.src_addr + 1] # 0
    /\ reg_value.bytes = <<0, 0, memory[lastOp.src_addr], memory[lastOp.src_addr + 1]>>

-----------------------------------------------------------------------------
(* Specification of the memory transfer in both directions *)

\* the lengths handed to the write: none, the register sizes, one between two
\* of them and one above the RegisterValue capacity
WriteLengths == {0, 3, kMaxRegisterByteSize + 1} \cup MemByteSizes

\* the backend stores all it is given, or one byte with or without reporting a
\* failure, or nothing and reports a failure
WriteBackends ==
    {[write_limit |-> kMaxRegisterByteSize, ok |-> TRUE], [write_limit |-> 1, ok |-> TRUE],
     [write_limit |-> 1, ok |-> FALSE], [write_limit |-> 0, ok |-> FALSE]}

\* the addresses that differ from the memory the process started with
DirtyAddrs(mem) == {a \in DOMAIN mem : mem[a] # InitialMemory[a]}

\* the values the caller hands to the write: none read yet, or one, two or four
\* bytes that differ from every byte of the initial memory
ValueOfBytes(b) == [type |-> "bytes", bytes |-> b]
WriteValues ==
    {InvalidValue, ValueOfBytes(<<11>>), ValueOfBytes(<<11, 12>>),
     ValueOfBytes(<<11, 12, 13, 14>>)}

InitMemWrite == InitMem

\* the memory transfer as a caller saving a value and reading it back: writes go
\* to memory no write has touched yet, reads follow a write
NextMemWrite ==
    \/ MemProcessGone
    \/ /\ DirtyAddrs(memory) = {}
       /\ \E reg_info \in MemRegInfos, dst_addr \in {0, 1}, dst_len \in WriteLengths,
             value \in WriteValues, copy_error_reported \in BOOLEAN,
             backend \in WriteBackends :
             WriteRegisterValueToMemory(reg_info, dst_addr, dst_len, value,
                                        copy_error_reported, backend.write_limit,
                                        backend.ok)
    \/ /\ DirtyAddrs(memory) # {}
       /\ \E reg_info \in MemRegInfos, src_addr \in {0, 1}, src_len \in MemByteSizes,
             backend_ok \in BOOLEAN :
             \E bytes_read \in {n \in {src_len - 1, src_len} : ~backend_ok => n < src_len} :
                 ReadRegisterValueFromMemory(reg_info, src_addr, src_len, bytes_read,
                                             backend_ok)

SpecMemWrite == InitMemWrite /\ [][NextMemWrite]_vars

IsMemWrite(o) == o.op = "WriteRegisterValueToMemory"

\* the recorded write succeeded and wrote a value of S bytes, S at most the
\* descriptor's byte_size, with length S
IsRoundTripWrite(o) ==
    /\ IsMemWrite(o)
    /\ o.error = ""
    /\ o.reg_info.present
    /\ o.value.type = "bytes"
    /\ Len(o.value.bytes) <= o.reg_info.byte_size
    /\ o.dst_len = Len(o.value.bytes)

\* the recorded read asked for what the write w wrote, and the memory backend
\* returned the bytes asked for
IsReadBackOf(o, w) ==
    /\ IsMemRead(o)
    /\ o.reg_info = w.reg_info
    /\ o.src_addr = w.dst_addr
    /\ o.src_len = w.dst_len
    /\ o.bytes_read = o.src_len

C14_WriteSerializesThenChecks ==
    (IsMemWrite(lastOp) /\ lastOp.alive) =>
        /\ lastOp.serialized
        /\ (lastOp.ser_error # "" \/ lastOp.bytes_copied = 0) =>
              /\ lastOp.error # ""
              /\ lastOp.mem_writes = <<>>
              /\ memory = lastOp.memory_pre
        /\ (lastOp.ser_error = "" /\ lastOp.bytes_copied > 0) =>
              lastOp.mem_writes = <<<<lastOp.dst_addr, lastOp.bytes_copied>>>>
        /\ lastOp.bytes_written < lastOp.bytes_copied =>
              /\ lastOp.error # ""
              /\ lastOp.backend_ok => lastOp.error = "only wrote fewer bytes"
        /\ lastOp.error = "" =>
              /\ lastOp.ser_error = ""
              /\ lastOp.bytes_copied > 0
              /\ lastOp.bytes_written = lastOp.bytes_copied

\* the serializer copied two bytes, the backend stored one of them and reported
\* success: the call returned the short-write error
C14_Witness ==
    /\ IsMemWrite(lastOp)
    /\ lastOp.alive
    /\ lastOp.ser_error = ""
    /\ lastOp.bytes_copied = 2
    /\ lastOp.bytes_written = 1
    /\ lastOp.backend_ok
    /\ lastOp.error = "only wrote fewer bytes"
    /\ memory # lastOp.memory_pre

\* C15: a ReadRegisterValueFromMemory or WriteRegisterValueToMemory made while
\* the owning process is absent returns an error, asks the process for nothing
\* (no memory read, no memory write, no byte order for the serializer), leaves
\* memory as it was and leaves the caller's register value as it was.
C15_AbsentProcessFailsCleanly ==
    ((IsMemRead(lastOp) \/ IsMemWrite(lastOp)) /\ ~lastOp.alive) =>
        /\ lastOp.error # ""
        /\ reg_value = lastOp.value_pre
        /\ IsMemRead(lastOp) => lastOp.mem_reads = <<>>
        /\ IsMemWrite(lastOp) =>
              /\ lastOp.error = "invalid process"
              /\ ~lastOp.serialized
              /\ lastOp.mem_writes = <<>>
              /\ memory = lastOp.memory_pre

\* a read with arguments that pass every check, which the backend would have
\* served in full, made after the process went away: it failed for the missing
\* process and the register value read earlier is still there
C15_Witness ==
    /\ IsMemRead(lastOp)
    /\ ~lastOp.alive
    /\ lastOp.reg_info.present
    /\ lastOp.src_len <= lastOp.reg_info.byte_size
    /\ lastOp.bytes_read = lastOp.src_len
    /\ lastOp.error = "invalid process"
    /\ reg_value.type = "bytes"
    /\ reg_value = lastOp.value_pre

-----------------------------------------------------------------------------
(* RegisterContext::UpdateDynamicRegisterSize *)

\* the statically declared byte_size of the descriptor handed in
DynByteSizes == {1, 2, 4, 8, 16, 32}

DynDescriptor(byte_size) == RegisterInfo("f0", LLDB_INVALID_REGNUM, 0, byte_size, FALSE)

\* what DWARFExpression::Evaluate hands back: failure, or success with a Value
\* that holds no scalar, or success with a scalar
EvalFailed == [ok |-> FALSE, has_scalar |-> FALSE, scalar |-> 0]
EvalScalars == (-1..2) \cup {42}
EvalOutcomes ==
    {EvalFailed, [ok |-> TRUE, has_scalar |-> FALSE, scalar |-> 0]}
        \cup {[ok |-> TRUE, has_scalar |-> TRUE, scalar |-> v] : v \in EvalScalars}

\* Scalar::SInt(fail_value): the scalar as an int, fail_value when there is none
SInt(eval, fail_value) == IF eval.has_scalar THEN eval.scalar ELSE fail_value

DynamicSize_ZeroOnFailure(eval, byte_size) ==
    IF eval.ok
    THEN LET expr_result == SInt(eval, -1)
         IN  IF expr_result = 0 THEN 4
             ELSE IF expr_result = 1 THEN 8
             ELSE byte_size
    ELSE 0

\* lines 90-105: the size returned for the evaluator's outcome
DynamicSize(eval, byte_size) ==
    IF eval.ok
    THEN LET expr_result == SInt(eval, -1)
         IN  IF expr_result = 0 THEN 4
             ELSE IF expr_result = 1 THEN 8
             ELSE byte_size
    ELSE byte_size

\* lines 68-106; addr_size is arch.GetAddressByteSize(), eval the outcome of the
\* expression evaluator; the failure branch prints the evaluator's error
UpdateDynamicRegisterSize(reg, addr_size, eval) ==
    /\ lastOp' = [op |-> "UpdateDynamicRegisterSize", reg |-> reg,
                  addr_size |-> addr_size, eval |-> eval,
                  reg_info_pre |-> reg_infos[reg],
                  ret |-> DynamicSize(eval, reg_infos[reg].byte_size),
                  printed |-> ~eval.ok]
    /\ UNCHANGED <<m_frames, m_unwind_complete, requests,
                   reg_infos, reg_sets, m_concrete_frame_idx, frames, target,
                   procAlive, procStopId, hw, m_stop_id, cache,
                   memory, byte_order, reg_value, prevOp>>

InitDyn ==
    /\ reg_infos \in {[i \in 0..0 |-> DynDescriptor(b)] : b \in DynByteSizes}
    /\ reg_sets = <<>>
    /\ m_concrete_frame_idx = 0
    /\ frames = <<>>
    /\ target = "plain"
    /\ m_frames = <<>>
    /\ m_unwind_complete = FALSE
    /\ requests = <<>>
    /\ procAlive = TRUE
    /\ procStopId = 0
    /\ hw = <<>>
    /\ m_stop_id = 0
    /\ cache = <<>>
    /\ memory = <<>>
    /\ byte_order \in {"little", "big"}
    /\ reg_value = 0
    /\ lastOp = [op |-> "none"]
    /\ prevOp = Summary(NoOp)

NextDyn ==
    \E reg \in DOMAIN reg_infos, addr_size \in {4, 8}, eval \in EvalOutcomes :
        UpdateDynamicRegisterSize(reg, addr_size, eval)

SpecDyn == InitDyn /\ [][NextDyn]_vars

IsDynCall(o) == o.op = "UpdateDynamicRegisterSize"

\* C16: UpdateDynamicRegisterSize returns 4 when the evaluator succeeds with 0,
\* 8 when it succeeds with 1, and the descriptor's declared byte_size when it
\* succeeds with anything else or fails; the result is one of these three sizes
\* whatever the evaluator did, and the descriptor is as it was before the call.
C16_DynamicSizeFallsBack ==
    IsDynCall(lastOp) =>
        LET e == lastOp.eval
            static == lastOp.reg_info_pre.byte_size
        IN  /\ (e.ok /\ e.has_scalar /\ e.scalar = 0) => lastOp.ret = 4
            /\ (e.ok /\ e.has_scalar /\ e.scalar = 1) => lastOp.ret = 8
            /\ (e.ok /\ e.has_scalar /\ e.scalar \notin {0, 1}) => lastOp.ret = static
            /\ (e.ok /\ ~e.has_scalar) => lastOp.ret = static
            /\ ~e.ok => lastOp.ret = static
            /\ lastOp.ret \in {4, 8, static}
            /\ lastOp.ret > 0
            /\ reg_infos[lastOp.reg] = lastOp.reg_info_pre

\* the evaluator failed on a descriptor declared 16 bytes wide: 16 came back
C16_Witness ==
    /\ IsDynCall(lastOp)
    /\ ~lastOp.eval.ok
    /\ lastOp.printed
    /\ reg_infos[lastOp.reg].byte_size = 16
    /\ lastOp.ret = 16

-----------------------------------------------------------------------------
(* The generic-role accessors and the unsigned write *)

\* lldb-defines.h generic register numbers
LLDB_REGNUM_GENERIC_FP == 2
LLDB_REGNUM_GENERIC_RA == 3
LLDB_REGNUM_GENERIC_FLAGS == 4

\* RegisterValue::SetUInt(uval, byte_size): the value as an unsigned integer of
\* byte_size bytes; there is no unsigned integer type above 16 bytes
SetUInt(uval, byte_size) == [ok |-> byte_size <= 16, value |-> uval]

\* WriteRegister(reg_info, value): the backend stores the value in the stopped
\* thread and in its cache, which needs the process; write_ok is the backend's
\* own result
BackendWriteRegister(c, h, alive, gen, reg, value, write_ok) ==
    IF alive /\ write_ok
    THEN [ok |-> TRUE, hw |-> [h EXCEPT ![reg] = value],
          cache |-> [c EXCEPT ![reg] = [valid |-> TRUE, value |-> value, gen |-> gen]]]
    ELSE [ok |-> FALSE, hw |-> h, cache |-> c]

WriteRegisterFromUnsignedResult_SkipsSetUIntCheck(reg, uval, write_ok) ==
    IF reg = LLDB_INVALID_REGNUM \/ ~HasRegisterInfo(reg_infos, reg)
    THEN [ret |-> FALSE, stored_ok |-> FALSE, issued |-> FALSE, hw |-> hw, cache |-> cache]
    ELSE LET value == SetUInt(uval, reg_infos[reg].byte_size)
             w == BackendWriteRegister(cache, hw, procAlive, procStopId, reg,
                                       value.value, write_ok)
         IN  [ret |-> w.ok, stored_ok |-> value.ok, issued |-> TRUE,
              hw |-> w.hw, cache |-> w.cache]

\* lines 219-233: WriteRegisterFromUnsigned(reg, uval)
WriteRegisterFromUnsignedResult(reg, uval, write_ok) ==
    IF reg = LLDB_INVALID_REGNUM \/ ~HasRegisterInfo(reg_infos, reg)
    THEN [ret |-> FALSE, stored_ok |-> FALSE, issued |-> FALSE, hw |-> hw, cache |-> cache]
    ELSE LET value == SetUInt(uval, reg_infos[reg].byte_size)
         IN  IF value.ok
             THEN LET w == BackendWriteRegister(cache, hw, procAlive, procStopId, reg,
                                                value.value, write_ok)
                  IN  [ret |-> w.ok, stored_ok |-> TRUE, issued |-> TRUE,
                       hw |-> w.hw, cache |-> w.cache]
             ELSE [ret |-> FALSE, stored_ok |-> FALSE, issued |-> FALSE,
                   hw |-> hw, cache |-> cache]

\* what a write call adds to its record
WriteRecord(uval, write_ok, w) ==
    [uval |-> uval, write_ok |-> write_ok, write_issued |-> w.issued,
     stored_ok |-> w.stored_ok, success |-> w.ret, hw_pre |-> hw, frames_pre |-> frames]

WriteRegisterFromUnsigned(reg, uval, write_ok) ==
    LET w == WriteRegisterFromUnsignedResult(reg, uval, write_ok)
    IN  /\ hw' = w.hw
        /\ cache' = w.cache
        /\ lastOp' = [Entry("WriteRegisterFromUnsigned") EXCEPT !.reg = reg]
                          @@ WriteRecord(uval, write_ok, w)
        /\ prevOp' = Summary(lastOp)
        /\ UNCHANGED <<m_frames, m_unwind_complete, requests,
                       reg_infos, reg_sets, m_concrete_frame_idx, frames, target,
                       procAlive, procStopId, m_stop_id, memory, byte_order, reg_value>>

\* Thread::GetFrameWithConcreteFrameIndex(idx): the cached frame, if there is one
HasFrame(frs, idx) == idx \in DOMAIN frs

\* StackFrame::ChangePC(pc)
ChangePC(frs, idx, pc) == [frs EXCEPT ![idx].pc = pc]

\* Thread::ClearStackFrames()
ClearStackFrames(frs) == <<>>

FramesAfterSetPC_KeepsList(success, frs, idx, pc) ==
    IF success /\ HasFrame(frs, idx) THEN ChangePC(frs, idx, pc) ELSE frs

\* lines 144-151: the thread's frames after the register write
FramesAfterSetPC(success, frs, idx, pc) ==
    IF success
    THEN IF HasFrame(frs, idx) THEN ChangePC(frs, idx, pc) ELSE ClearStackFrames(frs)
    ELSE frs

\* lines 140-153: SetPC(pc)
SetPC(pc, write_ok) ==
    LET reg == ConvertRegisterKindToRegisterNumber(reg_infos, "generic", LLDB_REGNUM_GENERIC_PC)
        w == WriteRegisterFromUnsignedResult(reg, pc, write_ok)
    IN  /\ hw' = w.hw
        /\ cache' = w.cache
        /\ frames' = FramesAfterSetPC(w.ret, frames, m_concrete_frame_idx, pc)
        /\ lastOp' = [Entry("SetPC") EXCEPT !.reg = reg] @@ WriteRecord(pc, write_ok, w)
        /\ prevOp' = Summary(lastOp)
        /\ UNCHANGED <<m_frames, m_unwind_complete, requests,
                       reg_infos, reg_sets, m_concrete_frame_idx, target, procAlive,
                       procStopId, m_stop_id, memory, byte_order, reg_value>>

\* lines 166-200: a getter of a generic role other than the program counter
ReadGenericRegister(name, generic, fail_value) ==
    LET reg == ConvertRegisterKindToRegisterNumber(reg_infos, "generic", generic)
        r == ReadRegisterAsUnsignedResult(reg, fail_value)
    IN  /\ cache' = r.cache
        /\ lastOp' = [Entry(name) EXCEPT
                        !.reg = reg, !.read_issued = r.issued, !.read_ok = r.ok,
                        !.from_cache = r.from_cache, !.cached_at = r.cached_at,
                        !.fail_value = fail_value, !.ret = r.ret]
        /\ prevOp' = Summary(lastOp)
        /\ UNCHANGED m_stop_id
        /\ GateFrame

GetSP(fail_value) == ReadGenericRegister("GetSP", LLDB_REGNUM_GENERIC_SP, fail_value)

GetFP(fail_value) == ReadGenericRegister("GetFP", LLDB_REGNUM_GENERIC_FP, fail_value)

GetReturnAddress(fail_value) ==
    ReadGenericRegister("GetReturnAddress", LLDB_REGNUM_GENERIC_RA, fail_value)

GetFlags(fail_value) ==
    ReadGenericRegister("GetFlags", LLDB_REGNUM_GENERIC_FLAGS, fail_value)

\* two architectures: one with pc and sp as in the scenario table and a 32-byte
\* vector register; one whose table gives no register the program-counter or
\* stack-pointer role but has a frame pointer
AccTables ==
    { [i \in 0..2 |-> IF i = 0 THEN RegisterInfo("pc", LLDB_REGNUM_GENERIC_PC, 0, 8, FALSE)
                      ELSE IF i = 1
                      THEN RegisterInfo("sp", LLDB_REGNUM_GENERIC_SP, 1, 8, FALSE)
                      ELSE RegisterInfo("v0", LLDB_INVALID_REGNUM, 2, 32, FALSE)],
      [i \in 0..2 |-> IF i = 0 THEN RegisterInfo("r0", LLDB_INVALID_REGNUM, 0, 8, FALSE)
                      ELSE IF i = 1
                      THEN RegisterInfo("fp", LLDB_REGNUM_GENERIC_FP, 1, 8, FALSE)
                      ELSE RegisterInfo("v0", LLDB_INVALID_REGNUM, 2, 32, FALSE)] }

\* the failure values callers pass: one a register can hold, one it cannot
FailValues == {1, MaxVal + 1}

\* the state the accessors start from: nothing cached, every register zero, one
\* cached frame in the thread
InitAccessors(tables, frame_idxs, targets) ==
    /\ reg_infos \in tables
    /\ reg_sets = [s \in 0..0 |-> <<0, 1, 2>>]
    /\ m_concrete_frame_idx \in frame_idxs
    /\ frames = [i \in 0..0 |-> [pc |-> 0]]
    /\ target \in targets
    /\ m_frames = <<>>
    /\ m_unwind_complete = FALSE
    /\ requests = <<>>
    /\ procAlive = TRUE
    /\ procStopId = 0
    /\ hw = [r \in 0..2 |-> 0]
    /\ m_stop_id = procStopId
    /\ cache = [r \in 0..2 |-> NoEntry]
    /\ memory = <<>>
    /\ byte_order = "little"
    /\ reg_value = 0
    /\ lastOp = NoOp
    /\ prevOp = Summary(NoOp)

-----------------------------------------------------------------------------
(* Specification of the program-counter accessors *)

\* the context is of the thread's cached frame or of the next one, which is not
\* cached; the thread has no target, a plain one or one with a mode bit
InitPC == InitAccessors(AccTables, {0, 1}, Targets)

NextPC ==
    \/ ProcessGone
    \/ \E pc \in Val, write_ok \in BOOLEAN : SetPC(pc, write_ok)
    \/ \E fail_value \in FailValues : GetPC(fail_value)

SpecPC == InitPC /\ [][NextPC]_vars

-----------------------------------------------------------------------------
(* Specification of the unsigned accessors *)

InitAcc == InitAccessors(AccTables, {0}, {"plain"})

NextAcc ==
    \/ ProcessGone
    \/ \E fail_value \in FailValues : GetSP(fail_value)
    \/ \E fail_value \in FailValues : GetFP(fail_value)
    \/ \E fail_value \in FailValues : GetReturnAddress(fail_value)
    \/ \E fail_value \in FailValues : GetFlags(fail_value)
    \/ \E reg \in (DOMAIN reg_infos) \cup {3, LLDB_INVALID_REGNUM}, fail_value \in FailValues :
          ReadRegisterAsUnsigned(reg, fail_value)
    \/ \E reg \in (DOMAIN reg_infos) \cup {3, LLDB_INVALID_REGNUM}, uval \in Val,
          write_ok \in BOOLEAN :
          WriteRegisterFromUnsigned(reg, uval, write_ok)

SpecAcc == InitAcc /\ [][NextAcc]_vars

-----------------------------------------------------------------------------
(* Claims about the program-counter accessors and the unsigned accessors *)

IsSetPC(o) == o.op = "SetPC"

IsGetPC(o) == o.op = "GetPC"

\* the register write of the recorded call went through: the number resolved, the
\* value was stored at the register's size and the backend wrote it
WriteWentThrough(o) ==
    /\ o.reg # LLDB_INVALID_REGNUM
    /\ o.stored_ok
    /\ o.write_ok
    /\ o.alive

\* C17: SetPC(pc) returns the result of the register write. After a successful
\* write, if the thread has a frame at the context's concrete frame index, that
\* frame's PC is pc and the frame list is otherwise as it was, not cleared; if it
\* has none, the thread's frame list is empty. When the program-counter role does
\* not resolve or the write fails, SetPC returns false and the frame list is
\* exactly as it was.
C17_SetPCNotifiesOnSuccess ==
    IsSetPC(lastOp) =>
        LET idx == m_concrete_frame_idx
            had == HasFrame(lastOp.frames_pre, idx)
        IN  /\ lastOp.success <=> WriteWentThrough(lastOp)
            /\ (lastOp.success /\ had) =>
                  /\ DOMAIN frames = DOMAIN lastOp.frames_pre
                  /\ frames[idx].pc = lastOp.uval
                  /\ \A i \in DOMAIN frames \ {idx} : frames[i] = lastOp.frames_pre[i]
            /\ (lastOp.success /\ ~had) => DOMAIN frames = {}
            /\ ~lastOp.success =>
                  /\ frames = lastOp.frames_pre
                  /\ hw = lastOp.hw_pre

\* a successful SetPC on a context whose frame index has no cached frame, in a
\* thread that had a cached frame: the list is empty now
C17_Witness ==
    /\ IsSetPC(lastOp)
    /\ lastOp.success
    /\ ~HasFrame(lastOp.frames_pre, m_concrete_frame_idx)
    /\ DOMAIN lastOp.frames_pre # {}
    /\ DOMAIN frames = {}
    /\ hw[lastOp.reg] = lastOp.uval

\* a successful SetPC directly followed by a GetPC
SetPCThenGetPC == IsSetPC(lastOp) /\ lastOp.success /\ IsGetPC(lastOp')

UnsignedReaders ==
    [ReadRegisterAsUnsigned |-> LLDB_INVALID_REGNUM,
     GetSP |-> LLDB_REGNUM_GENERIC_SP,
     GetFP |-> LLDB_REGNUM_GENERIC_FP,
     GetReturnAddress |-> LLDB_REGNUM_GENERIC_RA,
     GetFlags |-> LLDB_REGNUM_GENERIC_FLAGS]

IsUnsignedRead(o) == o.op \in DOMAIN UnsignedReaders

IsUnsignedWrite(o) == o.op = "WriteRegisterFromUnsigned"

\* the recorded call named no register: the invalid number, or a number the
\* backend has no descriptor for
NoRegister(o) == o.reg = LLDB_INVALID_REGNUM \/ ~HasRegisterInfo(reg_infos, o.reg)

-----------------------------------------------------------------------------
(* RegisterContext::GetRegisterInfoByName *)

\* a name is the sequence of its characters; the upper-case letters the names of
\* the model use, each with its lower-case letter
UpperCase == [P |-> "p", C |-> "c", F |-> "f", R |-> "r", S |-> "s"]

\* the character folding of StringRef::compare_lower (ASCII tolower)
ToLower(ch) == IF ch \in DOMAIN UpperCase THEN UpperCase[ch] ELSE ch

\* StringRef::equals_lower(RHS): same length and equal once both are folded; a
\* null const char* converts to the empty StringRef
equals_lower(lhs, rhs) ==
    /\ Len(lhs) = Len(rhs)
    /\ \A i \in 1..Len(lhs) : ToLower(lhs[i]) = ToLower(rhs[i])

\* a descriptor with its alternate name; <<>> is a descriptor without one
NamedRegisterInfo(name, alt_name, lldb) ==
    RegisterInfo(name, LLDB_INVALID_REGNUM, lldb, 8, FALSE) @@ [alt_name |-> alt_name]

\* no descriptor
NullRegisterInfo == [found |-> FALSE, index |-> 0]

RECURSIVE ScanNames(_, _, _)
\* lines 57-65: the loop from reg on
ScanNames(table, reg_name, reg) ==
    IF reg < GetRegisterCount(table)
    THEN IF \/ equals_lower(reg_name, table[reg].name)
            \/ equals_lower(reg_name, table[reg].alt_name)
         THEN [found |-> TRUE, index |-> reg]
         ELSE ScanNames(table, reg_name, reg + 1)
    ELSE NullRegisterInfo

GetRegisterInfoByNameResult_FromZero(table, reg_name, start_idx) ==
    IF reg_name = <<>> THEN NullRegisterInfo ELSE ScanNames(table, reg_name, 0)

\* lines 51-66: the descriptor found, by its index
GetRegisterInfoByNameResult(table, reg_name, start_idx) ==
    IF reg_name = <<>> THEN NullRegisterInfo ELSE ScanNames(table, reg_name, start_idx)

\* lines 51-66: GetRegisterInfoByName(reg_name, start_idx)
GetRegisterInfoByName(reg_name, start_idx) ==
    /\ lastOp' = [op |-> "GetRegisterInfoByName", reg_name |-> reg_name,
                  start_idx |-> start_idx,
                  ret |-> GetRegisterInfoByNameResult(reg_infos, reg_name, start_idx)]
    /\ UNCHANGED <<m_frames, m_unwind_complete, requests,
                   reg_infos, reg_sets, m_concrete_frame_idx, frames, target,
                   procAlive, procStopId, hw, m_stop_id, cache,
                   memory, byte_order, reg_value, prevOp>>

-----------------------------------------------------------------------------
(* Specification of the lookup by name *)

\* two register tables: in one the name "pc" is a name, an alternate name and a
\* name in other letter case, at three indexes; in the other it is only the
\* alternate name of the last register, and "sp" is the name of two registers
NameTables ==
    { [i \in 0..3 |-> IF i = 0 THEN NamedRegisterInfo(<<"p", "c">>, <<>>, 0)
                      ELSE IF i = 1 THEN NamedRegisterInfo(<<"r", "1">>, <<"P", "C">>, 1)
                      ELSE IF i = 2 THEN NamedRegisterInfo(<<"P", "c">>, <<"f", "p">>, 2)
                      ELSE NamedRegisterInfo(<<"r">>, <<"r", "1">>, 3)],
      [i \in 0..3 |-> IF i = 0 THEN NamedRegisterInfo(<<"s", "p">>, <<>>, 0)
                      ELSE IF i = 1 THEN NamedRegisterInfo(<<"S", "P">>, <<>>, 1)
                      ELSE IF i = 2 THEN NamedRegisterInfo(<<"r", "1">>, <<>>, 2)
                      ELSE NamedRegisterInfo(<<"x">>, <<"p", "c">>, 3)] }

\* the names asked for: empty, names and alternate names of the tables in the
\* same and in other letter case, a prefix of a name, names no register has
RequestedNames ==
    {<<>>, <<"p", "c">>, <<"P", "C">>, <<"p", "C">>, <<"f", "P">>, <<"r", "1">>, <<"R">>, <<"R", "1">>, <<"s", "p">>, <<"p">>}

InitName ==
    /\ reg_infos \in NameTables
    /\ reg_sets = <<>>
    /\ m_concrete_frame_idx = 0
    /\ frames = <<>>
    /\ target = "plain"
    /\ m_frames = <<>>
    /\ m_unwind_complete = FALSE
    /\ requests = <<>>
    /\ procAlive = TRUE
    /\ procStopId = 0
    /\ hw = <<>>
    /\ m_stop_id = 0
    /\ cache = <<>>
    /\ memory = <<>>
    /\ byte_order = "little"
    /\ reg_value = 0
    /\ lastOp = [op |-> "none"]
    /\ prevOp = Summary(NoOp)

\* start indexes up to one past the register count
NextName ==
    \E reg_name \in RequestedNames, start_idx \in 0..(GetRegisterCount(reg_infos) + 1) :
        GetRegisterInfoByName(reg_name, start_idx)

SpecName == InitName /\ [][NextName]_vars

IsNameLookup(o) == o.op = "GetRegisterInfoByName"

\* the pairs of letters that differ only in case
CasePairs == {{"p", "P"}, {"c", "C"}, {"f", "F"}, {"r", "R"}, {"s", "S"}}

\* two names are equal ignoring case
SameIgnoringCase(a, b) ==
    /\ Len(a) = Len(b)
    /\ \A i \in 1..Len(a) : a[i] = b[i] \/ {a[i], b[i]} \in CasePairs

\* the indexes at or after start_idx of the descriptors the name names
NamedBy(table, reg_name, start_idx) ==
    {i \in DOMAIN table :
        /\ i >= start_idx
        /\ \/ SameIgnoringCase(reg_name, table[i].name)
           \/ table[i].alt_name # <<>> /\ SameIgnoringCase(reg_name, table[i].alt_name)}

\* C20: GetRegisterInfoByName(name, start_idx) returns the descriptor of the
\* lowest index at or after start_idx whose name or alternate name equals the
\* name ignoring case; it returns no descriptor when there is none, when the
\* name is empty and when start_idx is at or past the register count; it never
\* returns a descriptor of an index below start_idx.
C20_LookupByNameFindsFirstMatch ==
    IsNameLookup(lastOp) =>
        LET named == NamedBy(reg_infos, lastOp.reg_name, lastOp.start_idx)
            ret == lastOp.ret
        IN  /\ lastOp.reg_name = <<>> => ~ret.found
            /\ lastOp.start_idx >= GetRegisterCount(reg_infos) => ~ret.found
            /\ (lastOp.reg_name # <<>> /\ named = {}) => ~ret.found
            /\ (lastOp.reg_name # <<>> /\ named # {}) =>
                  /\ ret.found
                  /\ ret.index \in named
                  /\ \A i \in named : ret.index <= i
            /\ ret.found => ret.index >= lastOp.start_idx

\* a search continued past a first match: a register before start_idx has the
\* name, and the one returned has it, in other letter case, as alternate name
C20_Witness ==
    /\ IsNameLookup(lastOp)
    /\ lastOp.ret.found
    /\ lastOp.start_idx > 0
    /\ lastOp.ret.index >= lastOp.start_idx
    /\ NamedBy(reg_infos, lastOp.reg_name, 0) \ NamedBy(reg_infos, lastOp.reg_name, lastOp.start_idx) # {}
    /\ reg_infos[lastOp.ret.index].name # lastOp.reg_name
    /\ reg_infos[lastOp.ret.index].alt_name # lastOp.reg_name
    /\ SameIgnoringCase(lastOp.reg_name, reg_infos[lastOp.ret.index].alt_name)

-----------------------------------------------------------------------------
(* The default hardware breakpoint and watchpoint bookkeeping *)

\* lldb-defines.h
LLDB_INVALID_INDEX32 == UINT32_MAX

\* line 272
NumSupportedHardwareBreakpointsResult == 0

\* lines 274-277
SetHardwareBreakpointResult(addr, size) == LLDB_INVALID_INDEX32

ClearHardwareBreakpointResult_ClearsSlotZero(hw_idx) == hw_idx = 0

\* line 279
ClearHardwareBreakpointResult(hw_idx) == FALSE

\* line 281
NumSupportedHardwareWatchpointsResult == 0

\* lines 283-286
SetHardwareWatchpointResult(addr, size, read, write) == LLDB_INVALID_INDEX32

\* lines 288-290
ClearHardwareWatchpointResult(hw_index) == FALSE

\* line 292
HardwareSingleStepResult(enable) == FALSE

\* a call of one of the seven functions: none of them has a statement other
\* than its return
HardwareCall(name, args, ret) ==
    /\ lastOp' = [Entry(name) EXCEPT !.ret = ret] @@ [args |-> args]
    /\ prevOp' = Summary(lastOp)
    /\ UNCHANGED <<m_frames, m_unwind_complete, requests,
                   reg_infos, reg_sets, m_concrete_frame_idx, frames, target,
                   procAlive, procStopId, hw, m_stop_id, cache,
                   memory, byte_order, reg_value>>

NumSupportedHardwareBreakpoints ==
    HardwareCall("NumSupportedHardwareBreakpoints", <<>>,
                 NumSupportedHardwareBreakpointsResult)

SetHardwareBreakpoint(addr, size) ==
    HardwareCall("SetHardwareBreakpoint", <<addr, size>>,
                 SetHardwareBreakpointResult(addr, size))

ClearHardwareBreakpoint(hw_idx) ==
    HardwareCall("ClearHardwareBreakpoint", <<hw_idx>>,
                 ClearHardwareBreakpointResult(hw_idx))

NumSupportedHardwareWatchpoints ==
    HardwareCall("NumSupportedHardwareWatchpoints", <<>>,
                 NumSupportedHardwareWatchpointsResult)

SetHardwareWatchpoint(addr, size, read, write) ==
    HardwareCall("SetHardwareWatchpoint", <<addr, size, read, write>>,
                 SetHardwareWatchpointResult(addr, size, read, write))

ClearHardwareWatchpoint(hw_index) ==
    HardwareCall("ClearHardwareWatchpoint", <<hw_index>>,
                 ClearHardwareWatchpointResult(hw_index))

HardwareSingleStep(enable) ==
    HardwareCall("HardwareSingleStep", <<enable>>, HardwareSingleStepResult(enable))

-----------------------------------------------------------------------------
(* Specification of the hardware bookkeeping *)

\* the addresses and sizes of a breakpoint or watchpoint
HardwareAddrs == {0, UINT32_MAX}
HardwareSizes == {1, 4, 8}

\* slot indexes: the first two and the invalid one
HardwareSlots == {0, 1, LLDB_INVALID_INDEX32}

InitHw == InitAccessors(AccTables, {0}, {"plain"})

\* the bookkeeping calls, between register writes, stops and the loss of the
\* process, which bring the context into its states
NextHw ==
    \/ ProcessGone
    \/ \E reg \in DOMAIN reg_infos, uval \in Val :
          WriteRegisterFromUnsigned(reg, uval, TRUE)
    \/ NumSupportedHardwareBreakpoints
    \/ \E addr \in HardwareAddrs, size \in HardwareSizes :
          SetHardwareBreakpoint(addr, size)
    \/ \E hw_idx \in HardwareSlots : ClearHardwareBreakpoint(hw_idx)
    \/ NumSupportedHardwareWatchpoints
    \/ \E addr \in HardwareAddrs, size \in HardwareSizes, read \in BOOLEAN,
          write \in BOOLEAN :
          SetHardwareWatchpoint(addr, size, read, write)
    \/ \E hw_index \in HardwareSlots : ClearHardwareWatchpoint(hw_index)
    \/ \E enable \in BOOLEAN : HardwareSingleStep(enable)

SpecHw == InitHw /\ [][NextHw]_vars

\* the value each bookkeeping call returns by default
HardwareDefaults ==
    [NumSupportedHardwareBreakpoints |-> 0,
     SetHardwareBreakpoint |-> LLDB_INVALID_INDEX32,
     ClearHardwareBreakpoint |-> FALSE,
     NumSupportedHardwareWatchpoints |-> 0,
     SetHardwareWatchpoint |-> LLDB_INVALID_INDEX32,
     ClearHardwareWatchpoint |-> FALSE,
     HardwareSingleStep |-> FALSE]

IsHardwareCall(o) == o.op \in DOMAIN HardwareDefaults

\* the context's state: everything but the record of the calls
ContextState ==
    <<reg_infos, reg_sets, m_concrete_frame_idx, frames, target, procAlive,
      procStopId, hw, m_stop_id, cache, memory, byte_order, reg_value>>

\* C21: in every state and for every argument, the supported breakpoint and
\* watchpoint slot counts are 0, setting a hardware breakpoint or watchpoint
\* returns the invalid index, clearing one returns false, HardwareSingleStep
\* returns false, and the call leaves the context's state as it was.
C21_HardwareBookkeepingIsNoOp ==
    [][IsHardwareCall(lastOp') =>
          /\ lastOp'.ret = HardwareDefaults[lastOp'.op]
          /\ ContextState' = ContextState]_vars

\* a breakpoint slot is cleared on a context that holds written registers and
\* has lost its process: false, with the registers and the cache as they were
C21_Witness ==
    /\ lastOp.op = "ClearHardwareBreakpoint"
    /\ lastOp.args = <<0>>
    /\ lastOp.ret = FALSE
    /\ ~procAlive
    /\ \E r \in DOMAIN hw : hw[r] # 0 /\ cache[r].valid

-----------------------------------------------------------------------------
(* UnwindWasm *)

\* GetWasmCallStack(m_frames): the remote's answer, the addresses it put in the
\* vector and whether it reported success (a failed request may have put some)
RemoteStacks == {<<>>, <<4>>, <<4, 6>>, <<4, 6, 8>>}

RemoteOutcomes == [ok : BOOLEAN, frames : RemoteStacks]

\* size() returned as uint32_t
SizeAsUInt32(frs) == Len(frs) % (UINT32_MAX + 1)

UnwindAfterCount_RefetchesWhenEmpty(frs, complete, alive, outcome) ==
    IF ~complete \/ frs = <<>>
    THEN [m_frames |-> IF alive /\ outcome.ok THEN outcome.frames ELSE <<>>,
          m_unwind_complete |-> TRUE, requested |-> alive]
    ELSE [m_frames |-> frs, m_unwind_complete |-> complete, requested |-> FALSE]

\* part_002 lines 17-32: the cache after DoGetFrameCount and whether the call
\* asked the remote; &process->GetGDBRemote() is never null
UnwindAfterCount(frs, complete, alive, outcome) ==
    IF ~complete
    THEN [m_frames |-> IF alive /\ outcome.ok THEN outcome.frames ELSE <<>>,
          m_unwind_complete |-> TRUE, requested |-> alive]
    ELSE [m_frames |-> frs, m_unwind_complete |-> complete, requested |-> FALSE]

\* what a call of the unwinder adds to its record
UnwindRecord(u, outcome) ==
    [requested |-> u.requested, outcome |-> outcome, requests_pre |-> requests]

\* the requests of this period after a call that made or did not make one
RequestsAfter(u, outcome) == IF u.requested THEN Append(requests, outcome) ELSE requests

\* part_002 lines 16-34: DoGetFrameCount()
DoGetFrameCount(outcome) ==
    LET u == UnwindAfterCount(m_frames, m_unwind_complete, procAlive, outcome)
    IN  /\ m_frames' = u.m_frames
        /\ m_unwind_complete' = u.m_unwind_complete
        /\ requests' = RequestsAfter(u, outcome)
        /\ lastOp' = [Entry("DoGetFrameCount") EXCEPT !.ret = SizeAsUInt32(u.m_frames)]
                          @@ UnwindRecord(u, outcome)
        /\ prevOp' = Summary(lastOp)
        /\ UNCHANGED <<reg_infos, reg_sets, m_concrete_frame_idx, frames, target,
                       procAlive, procStopId, hw, m_stop_id, cache,
                       memory, byte_order, reg_value>>

\* part_002 lines 36-55: DoGetFrameInfoAtIndex(frame_idx, cfa, pc); reg_pc is what
\* the thread's register context returns from GetPC()
DoGetFrameInfoAtIndex(frame_idx, outcome, reg_pc) ==
    LET u == IF SizeAsUInt32(m_frames) = 0
             THEN UnwindAfterCount(m_frames, m_unwind_complete, procAlive, outcome)
             ELSE [m_frames |-> m_frames, m_unwind_complete |-> m_unwind_complete,
                   requested |-> FALSE]
        found == frame_idx = 0 \/ frame_idx < Len(u.m_frames)
        pc == IF frame_idx = 0 THEN reg_pc
              ELSE IF frame_idx < Len(u.m_frames) THEN u.m_frames[frame_idx + 1]
              ELSE 0
    IN  /\ m_frames' = u.m_frames
        /\ m_unwind_complete' = u.m_unwind_complete
        /\ requests' = RequestsAfter(u, outcome)
        /\ lastOp' = [Entry("DoGetFrameInfoAtIndex") EXCEPT !.ret = found]
                          @@ UnwindRecord(u, outcome)
                          @@ [frame_idx |-> frame_idx, cfa |-> 0, pc |-> pc]
        /\ prevOp' = Summary(lastOp)
        /\ UNCHANGED <<reg_infos, reg_sets, m_concrete_frame_idx, frames, target,
                       procAlive, procStopId, hw, m_stop_id, cache,
                       memory, byte_order, reg_value>>

\* part_001 lines 108-111: DoClear()
DoClear ==
    /\ m_frames' = <<>>
    /\ m_unwind_complete' = FALSE
    /\ requests' = <<>>
    /\ lastOp' = Entry("DoClear")
    /\ prevOp' = Summary(lastOp)
    /\ UNCHANGED <<reg_infos, reg_sets, m_concrete_frame_idx, frames, target,
                   procAlive, procStopId, hw, m_stop_id, cache,
                   memory, byte_order, reg_value>>

-----------------------------------------------------------------------------
(* Specification of the WebAssembly unwinder *)

\* part_001 lines 102-103: no frame cached, the unwind not done
InitWasm == InitAccessors(AccTables, {0}, {"plain"})

\* frame indexes up to one past the deepest remote stack
WasmFrameIdxs == 0..3

NextWasm ==
    \/ ProcessGone
    \/ DoClear
    \/ \E outcome \in RemoteOutcomes : DoGetFrameCount(outcome)
    \/ \E frame_idx \in WasmFrameIdxs, outcome \in RemoteOutcomes, reg_pc \in {2} :
          DoGetFrameInfoAtIndex(frame_idx, outcome, reg_pc)

SpecWasm == InitWasm /\ [][NextWasm]_vars

IsUnwindQuery(o) == o.op \in {"DoGetFrameCount", "DoGetFrameInfoAtIndex"}

\* the number of frames the requests of this period obtained: those of the one
\* request if it succeeded, none if it failed or none was made
FramesObtained ==
    IF requests = <<>> THEN 0
    ELSE IF requests[1].ok THEN Len(requests[1].frames) ELSE 0

\* C23: between construction or a DoClear and the next DoClear the call stack
\* is requested from the remote at most once, also when the request failed or
\* brought no frame; DoGetFrameCount returns the number of frames that one
\* request obtained, 0 when it failed or when there is no process to ask; DoClear
\* leaves the cache empty and no request on record, and a query that follows it
\* while the process exists asks the remote again.
C23_CallStackFetchedOncePerClear ==
    /\ [](Len(requests) <= 1)
    /\ [](lastOp.op = "DoGetFrameCount" =>
              /\ lastOp.ret = FramesObtained
              /\ (~lastOp.alive /\ lastOp.requests_pre = <<>>) => lastOp.ret = 0)
    /\ [](lastOp.op = "DoClear" =>
              (m_frames = <<>> /\ ~m_unwind_complete /\ requests = <<>>))
    /\ [][(lastOp.op = "DoClear" /\ IsUnwindQuery(lastOp') /\ procAlive) =>
              (lastOp'.requested /\ Len(requests') = 1)]_vars

\* a second query in a period whose one request failed: no new request, and the
\* frame count is 0 although the remote would now answer with frames
C23_Witness ==
    /\ lastOp.op = "DoGetFrameCount"
    /\ ~lastOp.requested
    /\ lastOp.alive
    /\ lastOp.outcome.ok
    /\ lastOp.outcome.frames # <<>>
    /\ Len(requests) = 1
    /\ ~requests[1].ok
    /\ lastOp.ret = 0

====
